---- MODULE Spec2Model ----
(***************************************************************************)
(* Hierarchical data-source registry of the Action base class              *)
(* (actions_framework_utils/enframe_action.py).                            *)
(*                                                                         *)
(* Encoding of Python values                                               *)
(*   dict            a function; {} is the function with empty domain      *)
(*   tuple (a, b)    the sequence <<a, b>>                                 *)
(*   pathlib.Path    [Path |-> p]                                          *)
(*   str data source [str |-> s]                                           *)
(*   None            [NoneType |-> "None"]                                 *)
(*   a schema_or_table_name string is held as the list of its '.'-separated*)
(*   segments, which is what str.split('.') returns for it: '' is <<"">>,  *)
(*   'sales' is <<"sales">>, 'sales.orders' is <<"sales", "orders">>,      *)
(*   'sales.' is <<"sales", "">>.                                          *)
(*   an optional name (str or None) is <<>> for None and <<s>> for s.      *)
(*   a raised exception is <<type, argument>>; <<>> means nothing raised.  *)
(*   enframe_db_url is an optional str; the engine created from a URL u,   *)
(*   which is what enframe_connection returns, is [Connectable |-> u].     *)
(*   a TicDat/PanDat object is [factory |-> f, _schema |-> n]: f names the *)
(*   schema attribute of the action whose factory made it, n is its        *)
(*   _schema attribute as an optional schema_or_table_name.                *)
(*   a TicDatFactory/PanDatFactory object is [factory_type |-> t];         *)
(*   config_schema is the value of the _config_schema attribute.           *)
(*   io is the trace of the last read_data/write_data call: the outcome of *)
(*   each resolution and every call handed to ticdat or to the database.   *)
(***************************************************************************)
EXTENDS Integers, Sequences, FiniteSets, TLC

VARIABLES data_source_mappings, is_running_on_enframe, enframe_db_url,
          config_schema, last, io, calls, resolved, again

vars == <<data_source_mappings, is_running_on_enframe, enframe_db_url,
          config_schema, last, io, calls, resolved, again>>

-----------------------------------------------------------------------------
(* Bounds and input alphabets *)

MaxCalls == 3

MaxInputCalls == 2

MaxDataCalls == 2

EmptyDict == [k \in {} |-> k]

DictSet(d, k, v) == [x \in (DOMAIN d) \cup {k} |-> IF x = k THEN v ELSE d[x]]

NoExc == <<>>

Exc(type, arg) == <<type, arg>>

PathObj(p) == [Path |-> p]

StrObj(s) == [str |-> s]

NoneObj == [NoneType |-> "None"]

FactoryObj(t) == [factory_type |-> t]

IsPath(v) == "Path" \in DOMAIN v

IsStr(v) == "str" \in DOMAIN v

IsNone(v) == "NoneType" \in DOMAIN v

IsDict(v) == ~IsPath(v) /\ ~IsStr(v) /\ ~IsNone(v)

DbParams == {"db_url", "db_schema", "db_table"}

EnframeDbUrl == "postgres://enframe"

ScenarioNames == {"scn", ""}

\* type(action).__name__ of the subclass and str.lower() on it
TypeName == "MyAction"

lower(s) == IF s = "MyAction" THEN "myaction" ELSE s

ActionTypeName == lower(TypeName)

RootPath == <<"">>

\* Names and data sources of the resolution scenarios (Spec)
SetPaths == {RootPath, <<"sales">>, <<"sales", "orders">>}

Paths ==
    SetPaths \cup {<<"sales", "items">>, <<"config_schema", "orders">>,
                   <<"hr">>, <<"hr", "orders">>}

DataSources ==
    {[db_url |-> "postgres://x", db_schema |-> "public"],
     [db_schema |-> "C"],
     [db_table |-> "orders_v2"],
     StrObj("/data/db_schema.json"),
     PathObj("/data")}

\* Names and data sources of the setter-validation runs (SpecInputs): '',
\* a schema, a table, 'sales.' whose table segment is empty, and a name with
\* two separators
AnySetPaths ==
    SetPaths \cup {<<"config_schema">>, <<"sales", "items">>,
                   <<"sales", "">>}

AnyPaths == AnySetPaths \cup Paths \cup {<<"a", "b", "c">>}

\* one dict for every outcome of _get_data_source_type and
\* _check_db_data_source at each granularity
AnyDictSources ==
    {[db_url |-> "postgres://x", db_schema |-> "public"],
     [db_schema |-> "C"],
     [db_table |-> "orders_v2"],
     [db_url |-> "postgres://x"],
     [db_url |-> "mysql://z", db_schema |-> "public"],
     [db_schema |-> "C", db_table |-> ""],
     [db_schema |-> "C", db_table |-> "orders_v2"],
     [db_url |-> "postgres://x", db_schema |-> "public",
      db_table |-> "orders_v2"],
     [db_url |-> "postgres://x", db_table |-> "orders_v2"],
     EmptyDict}

AnyDataSources ==
    AnyDictSources \cup DataSources \cup {StrObj("http://h"), NoneObj}

-----------------------------------------------------------------------------
(* Library functions the code relies on *)

\* urllib.parse.urlparse(s).scheme on the strings of the model
urlparse_scheme(s) ==
    CASE s = "postgres://x" -> "postgres"
      [] s = "postgres://y" -> "postgres"
      [] s = "postgres://enframe" -> "postgres"
      [] s = "mysql://z" -> "mysql"
      [] s = "http://h" -> "http"
      [] OTHER -> ""

\* Python's  param in s  for a str s: substring test
StrContains(s, param) == s = "/data/db_schema.json" /\ param = "db_schema"

\* truthiness of dict.get(k, None)
DictGetTruthy(d, k) == k \in DOMAIN d /\ d[k] # ""

-----------------------------------------------------------------------------
(* Action._get_schema_and_table_name *)

NameResult(raised, schema_name, table_name) ==
    [raised |-> raised, schema_name |-> schema_name, table_name |-> table_name]

\* not table_name : None or the empty string
NotTableName(table_name) == table_name = <<>> \/ table_name = <<"">>

get_schema_and_table_name(schema_or_table_name) ==
    IF Len(schema_or_table_name) \notin {1, 2}
    THEN NameResult(Exc("ValueError", "schema_or_table_name"), "", <<>>)
    ELSE IF Len(schema_or_table_name) = 1
    THEN NameResult(NoExc, schema_or_table_name[1], <<>>)
    ELSE IF NotTableName(<<schema_or_table_name[2]>>)
    THEN NameResult(Exc("ValueError", "table_name"), "", <<>>)
    ELSE NameResult(NoExc, schema_or_table_name[1],
                    <<schema_or_table_name[2]>>)

-----------------------------------------------------------------------------
(* Action._get_data_source_type *)

TypeResult(raised, type) == [raised |-> raised, type |-> type]

\* variant: a str is a file or directory whatever its text
get_data_source_type_any_str(data_source) ==
    IF IsStr(data_source) \/ IsPath(data_source)
    THEN TypeResult(NoExc, "file_or_dir")
    ELSE IF IsDict(data_source) /\ data_source # EmptyDict
    THEN IF DictGetTruthy(data_source, "db_url")
            /\ ~DictGetTruthy(data_source, "db_schema")
         THEN TypeResult(Exc("ValueError", "db_schema"), "")
         ELSE IF "db_url" \in DOMAIN data_source
                 /\ urlparse_scheme(data_source["db_url"])
                        \notin {"postgresql", "postgres"}
         THEN TypeResult(Exc("ValueError", "PostgreSQL"), "")
         ELSE TypeResult(NoExc, "db")
    ELSE TypeResult(Exc("ValueError", "data_source"), "")

\* variant: db_url is not required to come with db_schema
get_data_source_type_url_alone(data_source) ==
    IF IsStr(data_source)
    THEN IF urlparse_scheme(data_source.str) # ""
         THEN TypeResult(Exc("ValueError", "data_source"), "")
         ELSE TypeResult(NoExc, "file_or_dir")
    ELSE IF IsPath(data_source)
    THEN TypeResult(NoExc, "file_or_dir")
    ELSE IF IsDict(data_source) /\ data_source # EmptyDict
    THEN IF "db_url" \in DOMAIN data_source
            /\ urlparse_scheme(data_source["db_url"])
                   \notin {"postgresql", "postgres"}
         THEN TypeResult(Exc("ValueError", "PostgreSQL"), "")
         ELSE TypeResult(NoExc, "db")
    ELSE TypeResult(Exc("ValueError", "data_source"), "")

get_data_source_type(data_source) ==
    IF IsStr(data_source)
    THEN IF urlparse_scheme(data_source.str) # ""
         THEN TypeResult(Exc("ValueError", "data_source"), "")
         ELSE TypeResult(NoExc, "file_or_dir")
    ELSE IF IsPath(data_source)
    THEN TypeResult(NoExc, "file_or_dir")
    ELSE IF IsDict(data_source) /\ data_source # EmptyDict
    THEN IF DictGetTruthy(data_source, "db_url")
            /\ ~DictGetTruthy(data_source, "db_schema")
         THEN TypeResult(Exc("ValueError", "db_schema"), "")
         ELSE IF "db_url" \in DOMAIN data_source
                 /\ urlparse_scheme(data_source["db_url"])
                        \notin {"postgresql", "postgres"}
         THEN TypeResult(Exc("ValueError", "PostgreSQL"), "")
         ELSE TypeResult(NoExc, "db")
    ELSE TypeResult(Exc("ValueError", "data_source"), "")

-----------------------------------------------------------------------------
(* Action._check_db_data_source: the exception it raises, or NoExc *)

CheckSchemaLevel(data_source) ==
    IF ~DictGetTruthy(data_source, "db_schema")
    THEN Exc("ValueError", "db_schema")
    ELSE IF DictGetTruthy(data_source, "db_table")
    THEN Exc("ValueError", "db_table")
    ELSE NoExc

check_db_data_source(schema_or_table_name, data_source) ==
    LET rootCheck == IF schema_or_table_name = RootPath
                     THEN CheckSchemaLevel(data_source)
                     ELSE NoExc
        names == get_schema_and_table_name(schema_or_table_name)
    IN  IF rootCheck # NoExc THEN rootCheck
        ELSE IF names.raised # NoExc THEN names.raised
        ELSE IF NotTableName(names.table_name)
        THEN CheckSchemaLevel(data_source)
        ELSE IF ~DictGetTruthy(data_source, "db_table")
        THEN Exc("ValueError", "db_table")
        ELSE NoExc

-----------------------------------------------------------------------------
(* Action._set_data_source *)

SetResult(raised, mappings) == [raised |-> raised, mappings |-> mappings]

\* d.setdefault(k, {}) as the dict d becomes
SetDefault(d, k) == IF k \in DOMAIN d THEN d ELSE DictSet(d, k, EmptyDict)

StoreSchemaSource(mappings, schema_name, entry) ==
    LET m1 == SetDefault(mappings, "schemas")
        s1 == SetDefault(m1["schemas"], schema_name)
    IN  DictSet(m1, "schemas",
                DictSet(s1, schema_name,
                        DictSet(s1[schema_name], "source", entry)))

\* variant: the schema's tables are assigned, not updated
StoreTableSourceAlone(mappings, schema_name, table_name, entry) ==
    LET m1 == SetDefault(mappings, "schemas")
        s1 == SetDefault(m1["schemas"], schema_name)
    IN  DictSet(m1, "schemas",
            DictSet(s1, schema_name,
                DictSet(s1[schema_name], "tables",
                    DictSet(EmptyDict, table_name,
                            DictSet(EmptyDict, "source", entry)))))

StoreTableSource(mappings, schema_name, table_name, entry) ==
    LET m1 == SetDefault(mappings, "schemas")
        s1 == SetDefault(m1["schemas"], schema_name)
        e1 == SetDefault(s1[schema_name], "tables")
        t1 == SetDefault(e1["tables"], table_name)
    IN  DictSet(m1, "schemas",
            DictSet(s1, schema_name,
                DictSet(e1, "tables",
                    DictSet(t1, table_name,
                            DictSet(t1[table_name], "source", entry)))))

\* variant: the 'schemas' dict is created before the name is split
set_data_source_schemas_first(mappings, schema_or_table_name, data_source) ==
    LET typ == get_data_source_type(data_source)
        chk == IF typ.raised = NoExc /\ typ.type = "db"
               THEN check_db_data_source(schema_or_table_name, data_source)
               ELSE NoExc
        names == get_schema_and_table_name(schema_or_table_name)
        entry == <<data_source, typ.type>>
    IN  IF typ.raised # NoExc THEN SetResult(typ.raised, mappings)
        ELSE IF chk # NoExc THEN SetResult(chk, mappings)
        ELSE IF schema_or_table_name = RootPath
        THEN SetResult(NoExc, DictSet(mappings, "source", entry))
        ELSE IF names.raised # NoExc
        THEN SetResult(names.raised, SetDefault(mappings, "schemas"))
        ELSE IF NotTableName(names.table_name)
        THEN SetResult(NoExc,
                 StoreSchemaSource(mappings, names.schema_name, entry))
        ELSE SetResult(NoExc,
                 StoreTableSource(mappings, names.schema_name,
                                  names.table_name[1], entry))

set_data_source(mappings, schema_or_table_name, data_source) ==
    LET typ == get_data_source_type(data_source)
        chk == IF typ.raised = NoExc /\ typ.type = "db"
               THEN check_db_data_source(schema_or_table_name, data_source)
               ELSE NoExc
        names == get_schema_and_table_name(schema_or_table_name)
        entry == <<data_source, typ.type>>
    IN  IF typ.raised # NoExc THEN SetResult(typ.raised, mappings)
        ELSE IF chk # NoExc THEN SetResult(chk, mappings)
        ELSE IF schema_or_table_name = RootPath
        THEN SetResult(NoExc, DictSet(mappings, "source", entry))
        ELSE IF names.raised # NoExc THEN SetResult(names.raised, mappings)
        ELSE IF NotTableName(names.table_name)
        THEN SetResult(NoExc,
                 StoreSchemaSource(mappings, names.schema_name, entry))
        ELSE SetResult(NoExc,
                 StoreTableSource(mappings, names.schema_name,
                                  names.table_name[1], entry))

-----------------------------------------------------------------------------
(* Action._get_data_source                                                 *)
(* The returned tuple is the stored tuple itself, and its dict is the      *)
(* stored dict: every assignment the resolver makes to data_source is an   *)
(* assignment to the registry entry it was read from.                      *)

ParamResult(raised, data_source) ==
    [raised |-> raised, data_source |-> data_source]

\* the loop of set_default_param over default_data_source_and_type_list
RECURSIVE ScanDefaults(_, _, _)
ScanDefaults(data_source, param, defaults) ==
    IF defaults = <<>>
    THEN ParamResult(NoExc, data_source)
    ELSE LET default_data_source == Head(defaults)[1]
         IN  IF IsPath(default_data_source)
             THEN ParamResult(Exc("TypeError", "not iterable"), data_source)
             ELSE IF IsStr(default_data_source)
             THEN IF StrContains(default_data_source.str, param)
                  THEN ParamResult(Exc("TypeError", "string indices"),
                                   data_source)
                  ELSE ScanDefaults(data_source, param, Tail(defaults))
             ELSE IF param \in DOMAIN default_data_source
             THEN ParamResult(NoExc,
                      DictSet(data_source, param, default_data_source[param]))
             ELSE ScanDefaults(data_source, param, Tail(defaults))

set_default_param(data_source, param, defaults) ==
    IF param \in DOMAIN data_source
    THEN ParamResult(NoExc, data_source)
    ELSE ScanDefaults(data_source, param, defaults)

set_hierarchical_params(data_source_and_type, defaults) ==
    LET data_source == data_source_and_type[1]
        data_type == data_source_and_type[2]
        url == set_default_param(data_source, "db_url", defaults)
        sch == set_default_param(url.data_source, "db_schema", defaults)
    IN  IF data_type # "db" THEN ParamResult(NoExc, data_source)
        ELSE IF url.raised # NoExc THEN url
        ELSE sch

GetResult(raised, ret, mappings) ==
    [raised |-> raised, ret |-> ret, mappings |-> mappings]

\* where in the registry the resolved tuple lives
RootLoc == <<"source">>

SchemaLoc(schema_name) == <<"schemas", schema_name, "source">>

TableLoc(schema_name, table_name) ==
    <<"schemas", schema_name, "tables", table_name, "source">>

RECURSIVE DictAt(_, _)
DictAt(d, loc) == IF loc = <<>> THEN d ELSE DictAt(d[Head(loc)], Tail(loc))

RECURSIVE DictPut(_, _, _)
DictPut(d, loc, v) ==
    IF loc = <<>> THEN v
    ELSE DictSet(d, Head(loc), DictPut(d[Head(loc)], Tail(loc), v))

\* the registry after  data_source_and_type[0]  became data_source
WriteBack(mappings, loc, data_source) ==
    DictPut(mappings, loc, <<data_source, DictAt(mappings, loc)[2]>>)

\* variant: the tuple returned is the one read before the parameters were
\* filled in
GetSchemaLevelStale(mappings, schema_name) ==
    LET registered == schema_name \in DOMAIN mappings["schemas"]
        loc == IF registered THEN SchemaLoc(schema_name) ELSE RootLoc
        found == IF registered
                 THEN "source" \in DOMAIN mappings["schemas"][schema_name]
                 ELSE "source" \in DOMAIN mappings
        hp == set_hierarchical_params(DictAt(mappings, loc),
                                      <<mappings["source"]>>)
        after == WriteBack(mappings, loc, hp.data_source)
    IN  IF ~found \/ "source" \notin DOMAIN mappings
        THEN GetResult(Exc("KeyError", "source"), <<>>, mappings)
        ELSE IF hp.raised # NoExc THEN GetResult(hp.raised, <<>>, after)
        ELSE GetResult(NoExc, DictAt(mappings, loc), after)

GetSchemaLevel(mappings, schema_name) ==
    LET registered == schema_name \in DOMAIN mappings["schemas"]
        loc == IF registered THEN SchemaLoc(schema_name) ELSE RootLoc
        found == IF registered
                 THEN "source" \in DOMAIN mappings["schemas"][schema_name]
                 ELSE "source" \in DOMAIN mappings
        hp == set_hierarchical_params(DictAt(mappings, loc),
                                      <<mappings["source"]>>)
        after == WriteBack(mappings, loc, hp.data_source)
    IN  IF ~found \/ "source" \notin DOMAIN mappings
        THEN GetResult(Exc("KeyError", "source"), <<>>, mappings)
        ELSE IF hp.raised # NoExc THEN GetResult(hp.raised, <<>>, after)
        ELSE GetResult(NoExc, DictAt(after, loc), after)

GetTableLevel(mappings, schema_name, table_name) ==
    LET schemas == mappings["schemas"]
        registered == schema_name \in DOMAIN schemas
        hasTables == "tables" \in DOMAIN schemas[schema_name]
        inTables == table_name \in DOMAIN schemas[schema_name]["tables"]
        loc == IF ~registered THEN RootLoc
               ELSE IF ~inTables THEN SchemaLoc(schema_name)
               ELSE TableLoc(schema_name, table_name)
        found == IF ~registered THEN "source" \in DOMAIN mappings
                 ELSE IF ~inTables
                 THEN "source" \in DOMAIN schemas[schema_name]
                 ELSE TRUE
        picked == DictAt(mappings, loc)
        named == IF picked[2] = "db" /\ "db_table" \notin DOMAIN picked[1]
                 THEN WriteBack(mappings, loc,
                                DictSet(picked[1], "db_table", table_name))
                 ELSE mappings
        hp == set_hierarchical_params(
                  DictAt(named, loc),
                  <<named["schemas"][schema_name]["source"],
                    named["source"]>>)
        after == WriteBack(named, loc, hp.data_source)
    IN  IF registered /\ ~hasTables
        THEN GetResult(Exc("KeyError", "tables"), <<>>, mappings)
        ELSE IF ~found
        THEN GetResult(Exc("KeyError", "source"), <<>>, mappings)
        ELSE IF ~registered
        THEN GetResult(Exc("KeyError", schema_name), <<>>, named)
        ELSE IF "source" \notin DOMAIN schemas[schema_name]
                \/ "source" \notin DOMAIN mappings
        THEN GetResult(Exc("KeyError", "source"), <<>>, named)
        ELSE IF hp.raised # NoExc THEN GetResult(hp.raised, <<>>, after)
        ELSE GetResult(NoExc, DictAt(after, loc), after)

\* variant: the default is read with dict.get, so a missing default is None
get_data_source_dict_get(mappings, schema_or_table_name) ==
    LET names == get_schema_and_table_name(schema_or_table_name)
    IN  IF schema_or_table_name = RootPath \/ "schemas" \notin DOMAIN mappings
        THEN IF "source" \in DOMAIN mappings
             THEN GetResult(NoExc, mappings["source"], mappings)
             ELSE GetResult(NoExc, <<>>, mappings)
        ELSE IF names.raised # NoExc
        THEN GetResult(names.raised, <<>>, mappings)
        ELSE IF NotTableName(names.table_name)
        THEN GetSchemaLevel(mappings, names.schema_name)
        ELSE GetTableLevel(mappings, names.schema_name, names.table_name[1])

get_data_source(mappings, schema_or_table_name) ==
    LET names == get_schema_and_table_name(schema_or_table_name)
    IN  IF schema_or_table_name = RootPath \/ "schemas" \notin DOMAIN mappings
        THEN IF "source" \in DOMAIN mappings
             THEN GetResult(NoExc, mappings["source"], mappings)
             ELSE GetResult(Exc("KeyError", "source"), <<>>, mappings)
        ELSE IF names.raised # NoExc
        THEN GetResult(names.raised, <<>>, mappings)
        ELSE IF NotTableName(names.table_name)
        THEN GetSchemaLevel(mappings, names.schema_name)
        ELSE GetTableLevel(mappings, names.schema_name, names.table_name[1])

-----------------------------------------------------------------------------
(* Action.__new__: the registry a constructed action starts with *)

\* Path('../Inputs') if Path('../Inputs').is_dir() else Path('.')
DefaultLocalDir(inputs_is_dir) ==
    IF inputs_is_dir THEN PathObj("/cwd/../Inputs") ELSE PathObj("/cwd")

NewLocal(inputs_is_dir) ==
    DictSet(EmptyDict, "local",
            set_data_source(EmptyDict, RootPath,
                            DefaultLocalDir(inputs_is_dir)).mappings)

\* variant: the default schema of the partition carries the type name too
NewEnframeTypeDefault(inputs_is_dir, scenario_name) ==
    LET root == set_data_source(
                    EmptyDict, RootPath,
                    [db_url |-> EnframeDbUrl,
                     db_schema |-> ActionTypeName \o "_" \o scenario_name])
        cfg == set_data_source(
                    root.mappings, <<"config_schema">>,
                    [db_schema |-> ActionTypeName \o "_" \o scenario_name])
    IN  [raised |-> IF root.raised # NoExc THEN root.raised ELSE cfg.raised,
         mappings |-> DictSet(NewLocal(inputs_is_dir), "enframe",
                              cfg.mappings)]

\* len(sys.argv) == 3, the configuration file was read and the URL built.
\* The two setter calls are outside the try block: with an empty scenario
\* name the first one raises and __new__ returns no action.
NewEnframe(inputs_is_dir, scenario_name) ==
    LET root == set_data_source(
                    EmptyDict, RootPath,
                    [db_url |-> EnframeDbUrl, db_schema |-> scenario_name])
        cfg == set_data_source(
                    root.mappings, <<"config_schema">>,
                    [db_schema |-> ActionTypeName \o "_" \o scenario_name])
    IN  [raised |-> IF root.raised # NoExc THEN root.raised ELSE cfg.raised,
         mappings |-> DictSet(NewLocal(inputs_is_dir), "enframe",
                              cfg.mappings)]

-----------------------------------------------------------------------------
(* State machine: one action per public call *)

Call(op, partition, name, data_source, raised, ret) ==
    [op |-> op, partition |-> partition, name |-> name,
     data_source |-> data_source, raised |-> raised, ret |-> ret]

\* resolved: some getter has been called since construction
\* again: the last call was a getter call for the partition and name of the
\* getter call right before it
Built ==
    /\ calls = 0
    /\ resolved = FALSE
    /\ again = FALSE
    /\ io = <<>>
    /\ last = Call("new", "", RootPath, NoneObj, NoExc, <<>>)
    /\ \E inputs_is_dir \in BOOLEAN :
          \/ /\ data_source_mappings = NewLocal(inputs_is_dir)
             /\ is_running_on_enframe = FALSE
             /\ enframe_db_url = <<>>
          \/ \E scenario_name \in ScenarioNames :
                /\ NewEnframe(inputs_is_dir, scenario_name).raised = NoExc
                /\ data_source_mappings =
                       NewEnframe(inputs_is_dir, scenario_name).mappings
                /\ is_running_on_enframe = TRUE
                /\ enframe_db_url = <<EnframeDbUrl>>

\* the subclass has bound its schemas: config_schema is its TicDatFactory
Init == Built /\ config_schema = FactoryObj("TicDatFactory")

Repeats ==
    again' = (/\ last.op = "get"
              /\ last'.op = "get"
              /\ last'.partition = last.partition
              /\ last'.name = last.name)

\* self._data_source_mappings[partition] raises KeyError before the static
\* method is entered
NoPartition(op, partition, schema_or_table_name, data_source) ==
    /\ partition \notin DOMAIN data_source_mappings
    /\ last' = Call(op, partition, schema_or_table_name, data_source,
                    Exc("KeyError", partition), <<>>)
    /\ Repeats
    /\ io' = <<>>
    /\ UNCHANGED data_source_mappings

Get(partition, schema_or_table_name) ==
    /\ partition \in DOMAIN data_source_mappings
    /\ LET r == get_data_source(data_source_mappings[partition],
                                schema_or_table_name)
       IN  /\ last' = Call("get", partition, schema_or_table_name, NoneObj,
                           r.raised, r.ret)
           /\ Repeats
           /\ io' = <<>>
           /\ data_source_mappings' =
                  DictSet(data_source_mappings, partition, r.mappings)

Set(partition, schema_or_table_name, data_source) ==
    /\ partition \in DOMAIN data_source_mappings
    /\ LET r == set_data_source(data_source_mappings[partition],
                                schema_or_table_name, data_source)
       IN  /\ last' = Call("set", partition, schema_or_table_name,
                           data_source, r.raised, <<>>)
           /\ Repeats
           /\ io' = <<>>
           /\ data_source_mappings' =
                  DictSet(data_source_mappings, partition, r.mappings)

Step(bound, did_resolve) ==
    /\ calls < bound
    /\ calls' = calls + 1
    /\ resolved' = (resolved \/ did_resolve)
    /\ UNCHANGED <<is_running_on_enframe, enframe_db_url, config_schema>>

get_local_data_source ==
    /\ Step(MaxCalls, TRUE)
    /\ \E name \in Paths : Get("local", name)

get_enframe_data_source ==
    /\ Step(MaxCalls, TRUE)
    /\ \/ NoPartition("get", "enframe", RootPath, NoneObj)
       \/ \E name \in Paths : Get("enframe", name)

set_local_data_source ==
    /\ Step(MaxCalls, FALSE)
    /\ \E name \in SetPaths, data_source \in DataSources :
          Set("local", name, data_source)

set_enframe_data_source ==
    /\ Step(MaxCalls, FALSE)
    /\ \/ NoPartition("set", "enframe", RootPath, PathObj("/data"))
       \/ \E name \in SetPaths, data_source \in DataSources :
             Set("enframe", name, data_source)

Next ==
    \/ get_local_data_source
    \/ get_enframe_data_source
    \/ set_local_data_source
    \/ set_enframe_data_source

Spec == Init /\ [][Next]_vars

\* the same calls over every shape of name and data source
get_local_any ==
    /\ Step(MaxInputCalls, TRUE)
    /\ \E name \in AnyPaths : Get("local", name)

get_enframe_any ==
    /\ Step(MaxInputCalls, TRUE)
    /\ \/ NoPartition("get", "enframe", RootPath, NoneObj)
       \/ \E name \in AnyPaths : Get("enframe", name)

set_local_any ==
    /\ Step(MaxInputCalls, FALSE)
    /\ \E name \in AnySetPaths, data_source \in AnyDataSources :
          Set("local", name, data_source)

set_enframe_any ==
    /\ Step(MaxInputCalls, FALSE)
    /\ \/ NoPartition("set", "enframe", RootPath, PathObj("/data"))
       \/ \E name \in AnySetPaths, data_source \in AnyDataSources :
             Set("enframe", name, data_source)

NextInputs ==
    \/ get_local_any
    \/ get_enframe_any
    \/ set_local_any
    \/ set_enframe_any

SpecInputs == Init /\ [][NextInputs]_vars

\* Action._get_data_source and Action._set_data_source are static methods
\* over a partition dict.  Here they work on a partition that is still the
\* empty dict it is created as, before any default source is stored in it.
InitEmptyPartition ==
    /\ calls = 0
    /\ resolved = FALSE
    /\ again = FALSE
    /\ io = <<>>
    /\ last = Call("new", "", RootPath, NoneObj, NoExc, <<>>)
    /\ data_source_mappings = DictSet(EmptyDict, "local", EmptyDict)
    /\ is_running_on_enframe = FALSE
    /\ enframe_db_url = <<>>
    /\ config_schema = FactoryObj("TicDatFactory")

NextStatic ==
    \/ get_local_data_source
    \/ set_local_data_source

SpecStatic == InitEmptyPartition /\ [][NextStatic]_vars

-----------------------------------------------------------------------------
(* read_data and write_data                                                *)
(* The action is an instance of a subclass that binds two schemas:         *)
(* config_schema, a TicDatFactory, and sales, a PanDatFactory.             *)

SchemaAttrs == {"config_schema", "sales"}

FactoryType(schema_name) ==
    IF schema_name = "config_schema" THEN "TicDatFactory" ELSE "PanDatFactory"

Dat(factory, schema) == [factory |-> factory, _schema |-> schema]

\* 'TicDat' / 'PanDat' in str(type(tic_or_pan_dat))
IsTicOrPanDat(v) == "factory" \in DOMAIN v

Event(call, name, args) == [call |-> call, name |-> name, args |-> args]

DbCalls ==
    {"_read_data_from_db", "_create_tables_in_db", "_write_data_to_db"}

\* what is on disk when the call is made: every path of the model as the
\* data sources mean it, nothing but the working directory, or a file
\* where a directory is meant and a directory where a file is meant
FileSystems == {"present", "absent", "swapped"}

path_text(data_source) ==
    IF IsPath(data_source) THEN data_source.Path ELSE data_source.str

\* Path(p).resolve().suffix[1:].lower(), '' where the code has None
path_suffix(p) ==
    CASE p = "/data/db_schema.json" -> "json"
      [] p = "/data/orders.csv" -> "csv"
      [] OTHER -> ""

path_parent(p) ==
    CASE p = "/data/db_schema.json" -> "/data"
      [] p = "/data/orders.csv" -> "/data"
      [] p = "/cwd/../Inputs" -> "/cwd/.."
      [] OTHER -> "/"

is_file(fs, p) ==
    \/ fs = "present" /\ path_suffix(p) # ""
    \/ fs = "swapped" /\ p = "/data"

is_dir(fs, p) ==
    \/ p \in {"/cwd", "/cwd/../Inputs"}
    \/ fs = "present" /\ path_suffix(p) = ""
    \/ fs = "swapped" /\ path_suffix(p) # ""

valid_extensions ==
    {"csv", "json", "xls", "xlsx", "db", "sql", "mdb", "accdb"}

PathResult(raised, data_path, data_file_type, extension) ==
    [raised |-> raised, data_path |-> data_path,
     data_file_type |-> data_file_type, extension |-> extension]

\* Action._get_data_path_and_type
get_data_path_and_type(file_or_dir_path, fs) ==
    LET extension == path_suffix(file_or_dir_path)
    IN  IF is_file(fs, file_or_dir_path) /\ extension \in valid_extensions
        THEN PathResult(NoExc,
                 IF extension = "csv" THEN path_parent(file_or_dir_path)
                 ELSE file_or_dir_path,
                 IF extension \in {"xlsx", "accdb"} THEN "xls" ELSE extension,
                 extension)
        ELSE IF is_dir(fs, file_or_dir_path)
        THEN PathResult(NoExc, file_or_dir_path, "csv", extension)
        ELSE PathResult(Exc("TypeError", "valid_extensions"), "", "", "")

\* variant: the resolved URL is handed over whatever it is
db_engine_or_url_str(db_url, url_attr) == StrObj(db_url)

\* data_source['db_url'] if data_source['db_url'] != self.enframe_db_url
\* else self.enframe_connection
db_engine_or_url(db_url, url_attr) ==
    IF <<db_url>> # url_attr THEN StrObj(db_url) ELSE [Connectable |-> db_url]

\* variant: db_schema is named first
missing_param_schema_first(data_source) ==
    IF "db_url" \notin DOMAIN data_source
       \/ "db_schema" \notin DOMAIN data_source
    THEN IF "db_url" \in DOMAIN data_source
         THEN <<"db_url">> ELSE <<"db_schema">>
    ELSE <<>>

\* the missing_param of read_data and write_data: <<>> when both are there
missing_param(data_source) ==
    IF "db_url" \notin DOMAIN data_source
       \/ "db_schema" \notin DOMAIN data_source
    THEN IF "db_url" \notin DOMAIN data_source
         THEN <<"db_url">> ELSE <<"db_schema">>
    ELSE <<>>

\* the value of a call that is made once: S is the set of what follows
\* the call, one element for the one value the call returns
Once(S) == CHOOSE v \in S : TRUE

\* self.get_enframe_data_source / self.get_local_data_source as read_data
\* and write_data call it
get_partition_data_source(mappings, partition, schema_or_table_name) ==
    IF partition \notin DOMAIN mappings
    THEN GetResult(Exc("KeyError", partition), <<>>, mappings)
    ELSE Once({GetResult(r.raised, r.ret,
                         DictSet(mappings, partition, r.mappings)) :
               r \in {get_data_source(mappings[partition],
                                      schema_or_table_name)}})

Resolution(schema_or_table_name, r) ==
    Event("get_data_source", schema_or_table_name,
          [raised |-> r.raised, ret |-> r.ret])

DataResult(raised, mappings, events, ret) ==
    [raised |-> raised, mappings |-> mappings, events |-> events, ret |-> ret]

\* Action._read_data_from_file_system: the ticdat call it ends in
read_data_from_file_system(schema_name, name, data_source, fs) ==
    LET pt == get_data_path_and_type(path_text(data_source), fs)
        read_method_name ==
            IF FactoryType(schema_name) = "TicDatFactory"
            THEN IF pt.data_file_type # "sql" THEN "create_tic_dat"
                 ELSE "create_tic_dat_from_sql"
            ELSE "create_pan_dat"
    IN  IF pt.raised # NoExc THEN [raised |-> pt.raised, events |-> <<>>]
        ELSE [raised |-> NoExc,
              events |-> <<Event("_read_data_from_file_system", name,
                               [schema |-> schema_name,
                                data_file_type |-> pt.data_file_type,
                                method |-> read_method_name,
                                data_path |-> pt.data_path])>>]

\* one turn of the loop of read_data
read_one(mappings, partition, url_attr, schema_or_table_name, fs) ==
    LET names == get_schema_and_table_name(schema_or_table_name)
        dat == Dat(names.schema_name, <<schema_or_table_name>>)
    IN  IF names.raised # NoExc
        THEN DataResult(names.raised, mappings, <<>>, <<>>)
        ELSE IF ~NotTableName(names.table_name)
        THEN DataResult(Exc("NotImplementedError", "table_name"),
                        mappings, <<>>, <<>>)
        ELSE IF names.schema_name \notin SchemaAttrs
        THEN DataResult(Exc("ValueError", "schema_name"),
                        mappings, <<>>, <<>>)
        ELSE Once({
          LET got == <<Resolution(schema_or_table_name, r)>>
              data_source == r.ret[1]
          IN  IF r.raised # NoExc
              THEN DataResult(r.raised, r.mappings, got, <<>>)
              ELSE IF r.ret[2] = "file_or_dir"
              THEN Once({DataResult(file.raised, r.mappings,
                             got \o file.events,
                             IF file.raised = NoExc THEN dat ELSE <<>>) :
                         file \in {read_data_from_file_system(
                                       names.schema_name,
                                       schema_or_table_name,
                                       data_source, fs)}})
              ELSE IF missing_param(data_source) # <<>>
              THEN DataResult(
                       Exc("ValueError", missing_param(data_source)[1]),
                       r.mappings, got, <<>>)
              ELSE DataResult(NoExc, r.mappings,
                       Append(got,
                           Event("_read_data_from_db", schema_or_table_name,
                                 [schema |-> names.schema_name,
                                  db_engine_or_url |->
                                      db_engine_or_url(data_source["db_url"],
                                                       url_attr),
                                  db_schema |-> data_source["db_schema"]])),
                       dat) :
          r \in {get_partition_data_source(mappings, partition,
                                           schema_or_table_name)}})

\* the loop of read_data over the names still to read; data is the dict
\* built so far
RECURSIVE read_loop(_, _, _, _, _, _, _)
read_loop(mappings, partition, url_attr, names, fs, events, data) ==
    IF names = <<>>
    THEN DataResult(NoExc, mappings, events, data)
    ELSE Once({
           IF one.raised # NoExc
           THEN DataResult(one.raised, one.mappings,
                           events \o one.events, <<>>)
           ELSE read_loop(one.mappings, partition, url_attr, Tail(names),
                          fs, events \o one.events,
                          DictSet(data, Head(names), one.ret)) :
           one \in {read_one(mappings, partition, url_attr,
                             Head(names), fs)}})

\* variant: the dict is returned however many names were given
read_data_call_always_dict(mappings, on_enframe, url_attr, names, fs) ==
    Once({
      IF r.raised # NoExc THEN r
      ELSE IF names = <<>>
      THEN DataResult(Exc("StopIteration", ""), r.mappings, r.events, <<>>)
      ELSE r :
      r \in {read_loop(mappings, IF on_enframe THEN "enframe" ELSE "local",
                       url_attr, names, fs, <<>>, EmptyDict)}})

\* Action.read_data
read_data_call(mappings, on_enframe, url_attr, names, fs) ==
    Once({
      IF r.raised # NoExc THEN r
      ELSE IF Len(names) > 1 THEN r
      ELSE IF names = <<>>
      THEN DataResult(Exc("StopIteration", ""), r.mappings, r.events, <<>>)
      ELSE DataResult(NoExc, r.mappings, r.events, r.ret[names[1]]) :
      r \in {read_loop(mappings, IF on_enframe THEN "enframe" ELSE "local",
                       url_attr, names, fs, <<>>, EmptyDict)}})

\* variant: an object without _schema is given the name of its factory,
\* bound or not
get_tic_or_pan_dat_schema_name_unchecked(tic_or_pan_dat) ==
    IF tic_or_pan_dat._schema # <<>>
    THEN [raised |-> NoExc, schema_name |-> tic_or_pan_dat._schema[1]]
    ELSE [raised |-> NoExc, schema_name |-> <<tic_or_pan_dat.factory>>]

\* Action._get_tic_or_pan_dat_schema_name: the _schema attribute, else
\* the schema of self.schema_names or vars(self) whose factory made the
\* object
get_tic_or_pan_dat_schema_name(tic_or_pan_dat) ==
    IF tic_or_pan_dat._schema # <<>>
    THEN [raised |-> NoExc, schema_name |-> tic_or_pan_dat._schema[1]]
    ELSE IF tic_or_pan_dat.factory \in SchemaAttrs
    THEN [raised |-> NoExc, schema_name |-> <<tic_or_pan_dat.factory>>]
    ELSE [raised |-> Exc("ValueError", "tic_or_pan_dat"),
          schema_name |-> <<>>]

\* Action._write_data_to_file_system: the ticdat call it ends in
write_data_to_file_system(schema_name, name, dat, data_source, fs) ==
    LET pt == get_data_path_and_type(path_text(data_source), fs)
        is_tic == FactoryType(schema_name) = "TicDatFactory"
        write_method_name ==
            IF pt.data_file_type = "csv" THEN "write_directory"
            ELSE IF is_tic /\ pt.data_file_type = "sql"
            THEN IF pt.extension = "db" THEN "write_db_data"
                 ELSE "write_sql_file"
            ELSE "write_file"
    IN  IF pt.raised # NoExc THEN [raised |-> pt.raised, events |-> <<>>]
        ELSE [raised |-> NoExc,
              events |-> <<Event("_write_data_to_file_system", name,
                               [schema |-> schema_name,
                                tic_or_pan_dat |-> dat,
                                data_file_type |-> pt.data_file_type,
                                method |-> write_method_name,
                                data_path |-> pt.data_path,
                                kwargs |-> IF is_tic
                                           THEN [allow_overwrite |-> TRUE]
                                           ELSE EmptyDict])>>]

\* d.setdefault(k, v) and d.pop(k, ...) as the dict d becomes
SetDefaultTo(d, k, v) == IF k \in DOMAIN d THEN d ELSE DictSet(d, k, v)

DictPop(d, k) == [x \in (DOMAIN d) \ {k} |-> d[x]]

WriteResult(raised, mappings, events, kwargs) ==
    [raised |-> raised, mappings |-> mappings, events |-> events,
     kwargs |-> kwargs]

\* one turn of the loop of write_data; kwargs is pgtd_write_db_data_kwargs
\* as the turns before left it
write_one(mappings, partition, url_attr, tic_or_pan_dat, kwargs, fs) ==
    LET sn == get_tic_or_pan_dat_schema_name(tic_or_pan_dat)
        schema_name == sn.schema_name
        with_default == SetDefaultTo(kwargs, "allow_overwrite", TRUE)
        create_tables == /\ "create_tables" \in DOMAIN with_default
                         /\ with_default["create_tables"]
        popped == DictPop(with_default, "create_tables")
    IN  IF sn.raised # NoExc
        THEN WriteResult(sn.raised, mappings, <<>>, kwargs)
        ELSE Once({
          LET got == <<Resolution(schema_name, r)>>
              data_source == r.ret[1]
              connection == db_engine_or_url(data_source["db_url"], url_attr)
              created ==
                  IF create_tables
                  THEN <<Event("_create_tables_in_db", schema_name,
                               [schema |-> schema_name[1],
                                db_engine_or_url |-> connection,
                                db_schema |-> data_source["db_schema"]])>>
                  ELSE <<>>
              written ==
                  <<Event("_write_data_to_db", schema_name,
                          [schema |-> schema_name[1],
                           tic_or_pan_dat |-> tic_or_pan_dat,
                           db_engine_or_url |-> connection,
                           db_schema |-> data_source["db_schema"],
                           kwargs |-> popped])>>
          IN  IF r.raised # NoExc
              THEN WriteResult(r.raised, r.mappings, got, kwargs)
              ELSE IF Len(schema_name) # 1
                      \/ schema_name[1] \notin SchemaAttrs
              THEN WriteResult(Exc("AttributeError", "schema_name"),
                               r.mappings, got, kwargs)
              ELSE IF r.ret[2] = "file_or_dir"
              THEN Once({WriteResult(file.raised, r.mappings,
                                     got \o file.events, kwargs) :
                         file \in {write_data_to_file_system(
                                       schema_name[1], schema_name,
                                       tic_or_pan_dat, data_source, fs)}})
              ELSE IF missing_param(data_source) # <<>>
              THEN WriteResult(
                       Exc("ValueError", missing_param(data_source)[1]),
                       r.mappings, got, kwargs)
              ELSE WriteResult(NoExc, r.mappings,
                               got \o created \o written, popped) :
          r \in {get_partition_data_source(mappings, partition,
                                           schema_name)}})

RECURSIVE write_loop(_, _, _, _, _, _, _)
write_loop(mappings, partition, url_attr, dats, kwargs, fs, events) ==
    IF dats = <<>>
    THEN DataResult(NoExc, mappings, events, <<>>)
    ELSE Once({
           IF one.raised # NoExc
           THEN DataResult(one.raised, one.mappings,
                           events \o one.events, <<>>)
           ELSE write_loop(one.mappings, partition, url_attr,
                           Tail(dats), one.kwargs, fs,
                           events \o one.events) :
           one \in {write_one(mappings, partition, url_attr,
                              Head(dats), kwargs, fs)}})

\* Action.write_data
write_data_call(mappings, on_enframe, url_attr, dats, kwargs, fs) ==
    IF \E i \in 1..Len(dats) : ~IsTicOrPanDat(dats[i])
    THEN DataResult(Exc("ValueError", "tic_or_pan_dats"), mappings,
                    <<>>, <<>>)
    ELSE write_loop(mappings, IF on_enframe THEN "enframe" ELSE "local",
                    url_attr, dats, kwargs, fs, <<>>)

-----------------------------------------------------------------------------
(* State machine of the data calls: the setters, read_data, write_data *)

DataSetPaths == {RootPath, <<"sales">>}

DataSetSources ==
    {[db_url |-> "postgres://x", db_schema |-> "public"],
     [db_url |-> EnframeDbUrl, db_schema |-> "public"],
     [db_schema |-> "C"],
     StrObj("/data/db_schema.json"),
     PathObj("/data")}

\* the arguments of read_data: no name, a bound schema, a name that is not
\* bound, a table, and pairs of names
ReadArgs ==
    {<<>>, <<<<"config_schema">>>>, <<<<"sales">>>>, <<<<"hr">>>>,
     <<<<"sales", "orders">>>>,
     <<<<"config_schema">>, <<"sales">>>>,
     <<<<"sales">>, <<"config_schema">>>>,
     <<<<"sales">>, <<"sales">>>>}

\* the arguments of write_data: objects that read_data returned, objects
\* built from a bound factory or from a factory that is not bound, and a
\* value that is no TicDat/PanDat
ConfigDat == Dat("config_schema", <<<<"config_schema">>>>)

SalesDat == Dat("sales", <<<<"sales">>>>)

NewSalesDat == Dat("sales", <<>>)

OtherDat == Dat("other", <<>>)

WriteArgs ==
    {<<ConfigDat>>, <<SalesDat>>, <<NewSalesDat>>, <<OtherDat>>, <<NoneObj>>,
     <<ConfigDat, SalesDat>>, <<SalesDat, ConfigDat>>,
     <<ConfigDat, NewSalesDat>>, <<NewSalesDat, OtherDat>>,
     <<OtherDat, NewSalesDat>>}

WriteKwargs == {EmptyDict, [create_tables |-> TRUE]}

DataCall(op, partition, args, kwargs, raised, ret) ==
    [op |-> op, partition |-> partition, name |-> RootPath,
     data_source |-> NoneObj, raised |-> raised, ret |-> ret,
     args |-> args, kwargs |-> kwargs]

Resolved(events) ==
    \E i \in 1..Len(events) : events[i].call = "get_data_source"

read_data ==
    \E names \in ReadArgs, fs \in FileSystems :
        \E r \in {read_data_call(data_source_mappings,
                                  is_running_on_enframe,
                                  enframe_db_url, names, fs)} :
            /\ Step(MaxDataCalls, Resolved(r.events))
            /\ last' = DataCall("read",
                           IF is_running_on_enframe THEN "enframe"
                           ELSE "local",
                           names, EmptyDict, r.raised, r.ret)
            /\ io' = r.events
            /\ again' = FALSE
            /\ data_source_mappings' = r.mappings

write_data ==
    \E tic_or_pan_dats \in WriteArgs, kwargs \in WriteKwargs,
       fs \in FileSystems :
        \E r \in {write_data_call(data_source_mappings,
                                   is_running_on_enframe,
                                   enframe_db_url, tic_or_pan_dats,
                                   kwargs, fs)} :
            /\ Step(MaxDataCalls, Resolved(r.events))
            /\ last' = DataCall("write",
                           IF is_running_on_enframe THEN "enframe"
                           ELSE "local",
                           tic_or_pan_dats, kwargs, r.raised, r.ret)
            /\ io' = r.events
            /\ again' = FALSE
            /\ data_source_mappings' = r.mappings

set_local_for_data ==
    /\ Step(MaxDataCalls, FALSE)
    /\ \E name \in DataSetPaths, data_source \in DataSetSources :
          Set("local", name, data_source)

set_enframe_for_data ==
    /\ Step(MaxDataCalls, FALSE)
    /\ \/ NoPartition("set", "enframe", RootPath, PathObj("/data"))
       \/ \E name \in DataSetPaths, data_source \in DataSetSources :
             Set("enframe", name, data_source)

NextData ==
    \/ set_local_for_data
    \/ set_enframe_for_data
    \/ read_data
    \/ write_data

SpecData == Init /\ [][NextData]_vars

-----------------------------------------------------------------------------
(* Construction and the is_running_on_enframe setter                       *)
(* The process starts with no action; Action.__new__ builds one from       *)
(* sys.argv, the configuration file and what sqlalchemy.create_engine does. *)

\* sys.argv: the program name alone, two arguments of which the second
\* does not end with '.json', two arguments of which the second does
ArgvShapes == {"no_arguments", "not_json", "json"}

\* the configuration file: readable with every key, not there or not JSON,
\* JSON without one of the keys read
ConfigFiles == {"valid", "unreadable", "incomplete"}

\* sqlalchemy.create_engine(url): returns an engine or raises
EngineOutcomes == {"engine", "raises"}

NewResult(raised, mappings, on_enframe, url_attr) ==
    [raised |-> raised, mappings |-> mappings, on_enframe |-> on_enframe,
     url_attr |-> url_attr]

\* Action.__new__
new_action(inputs_is_dir, argv, scenario_name, config, engine) ==
    IF argv # "json" \/ config # "valid"
    THEN NewResult(NoExc, NewLocal(inputs_is_dir), FALSE, <<>>)
    ELSE IF engine = "raises"
    THEN NewResult(Exc("ArgumentError", "create_engine"),
                   NewLocal(inputs_is_dir), TRUE, <<EnframeDbUrl>>)
    ELSE Once({NewResult(r.raised, r.mappings, TRUE, <<EnframeDbUrl>>) :
               r \in {NewEnframe(inputs_is_dir, scenario_name)}})

\* the is_running_on_enframe setter: type(value) is not bool raises
BoolObj(b) == [bool |-> b]

FlagValues == {BoolObj(TRUE), BoolObj(FALSE), [int |-> 1], NoneObj}

\* no action yet
InitProcess ==
    /\ calls = 0
    /\ resolved = FALSE
    /\ again = FALSE
    /\ io = <<>>
    /\ last = Call("start", "", RootPath, NoneObj, NoExc, <<>>)
    /\ data_source_mappings = EmptyDict
    /\ is_running_on_enframe = FALSE
    /\ enframe_db_url = <<>>
    /\ config_schema = FactoryObj("TicDatFactory")

\* there is an action: __new__ was called and returned one
Constructed ==
    /\ last.op # "start"
    /\ ~(last.op = "new" /\ last.raised # NoExc)

\* a constructor that raises returns no action: the process is left with
\* none
new ==
    /\ last.op = "start"
    /\ \E inputs_is_dir \in BOOLEAN, argv \in ArgvShapes,
          scenario_name \in ScenarioNames, config \in ConfigFiles,
          engine \in EngineOutcomes :
          \E r \in {new_action(inputs_is_dir, argv, scenario_name, config,
                               engine)} :
             /\ last' = DataCall("new", "",
                            [argv |-> argv, scenario_name |-> scenario_name,
                             config |-> config, engine |-> engine],
                            EmptyDict, r.raised, <<>>)
             /\ IF r.raised = NoExc
                THEN /\ data_source_mappings' = r.mappings
                     /\ is_running_on_enframe' = r.on_enframe
                     /\ enframe_db_url' = r.url_attr
                ELSE UNCHANGED <<data_source_mappings, is_running_on_enframe,
                                 enframe_db_url>>
    /\ UNCHANGED <<calls, resolved, again, io, config_schema>>

set_is_running_on_enframe ==
    /\ Constructed
    /\ calls < MaxDataCalls
    /\ calls' = calls + 1
    /\ \E value \in FlagValues :
          /\ last' = Call("set_is_running_on_enframe", "", RootPath, value,
                          IF "bool" \in DOMAIN value THEN NoExc
                          ELSE Exc("ValueError", "is_running_on_enframe"),
                          <<>>)
          /\ is_running_on_enframe' =
                 IF "bool" \in DOMAIN value THEN value.bool
                 ELSE is_running_on_enframe
    /\ again' = FALSE
    /\ io' = <<>>
    /\ UNCHANGED <<data_source_mappings, enframe_db_url, resolved,
                   config_schema>>

NextLife ==
    \/ new
    \/ set_is_running_on_enframe
    \/ Constructed /\ set_local_for_data
    \/ Constructed /\ set_enframe_for_data
    \/ Constructed /\ read_data
    \/ Constructed /\ write_data

SpecLife == InitProcess /\ [][NextLife]_vars

-----------------------------------------------------------------------------
(* State machine of the inheritance runs: the default of a partition is    *)
(* replaced by database locations with different URLs; schemas and tables  *)
(* are given database locations without db_url                             *)

InheritDefaults ==
    {[db_url |-> "postgres://x", db_schema |-> "public"],
     [db_url |-> "postgres://y", db_schema |-> "public"]}

InheritSetPaths == {<<"sales">>, <<"sales", "orders">>}

InheritSources == {[db_schema |-> "C"], [db_table |-> "orders_v2"]}

InheritPaths ==
    {RootPath, <<"config_schema">>, <<"sales">>, <<"sales", "orders">>}

get_local_inherit ==
    /\ Step(MaxCalls, TRUE)
    /\ \E name \in InheritPaths : Get("local", name)

get_enframe_inherit ==
    /\ Step(MaxCalls, TRUE)
    /\ \/ NoPartition("get", "enframe", RootPath, NoneObj)
       \/ \E name \in InheritPaths : Get("enframe", name)

set_local_inherit ==
    /\ Step(MaxCalls, FALSE)
    /\ \/ \E data_source \in InheritDefaults :
             Set("local", RootPath, data_source)
       \/ \E name \in InheritSetPaths, data_source \in InheritSources :
             Set("local", name, data_source)

set_enframe_inherit ==
    /\ Step(MaxCalls, FALSE)
    /\ \/ NoPartition("set", "enframe", RootPath, PathObj("/data"))
       \/ \E data_source \in InheritDefaults :
             Set("enframe", RootPath, data_source)
       \/ \E name \in InheritSetPaths, data_source \in InheritSources :
             Set("enframe", name, data_source)

NextInherit ==
    \/ get_local_inherit
    \/ get_enframe_inherit
    \/ set_local_inherit
    \/ set_enframe_inherit

SpecInherit == Init /\ [][NextInherit]_vars

-----------------------------------------------------------------------------
(* The config_schema setter, on an action whose subclass has not assigned  *)
(* config_schema yet                                                       *)

\* the values assigned: the two factories, None, a str, the empty str
ConfigValues ==
    {FactoryObj("TicDatFactory"), FactoryObj("PanDatFactory"), NoneObj,
     StrObj("abc"), StrObj("")}

IsFactory(v) == "factory_type" \in DOMAIN v

\* not v : None and the empty str are falsy
Falsy(v) == IsNone(v) \/ v = StrObj("")

ConfigResult(raised, stored) == [raised |-> raised, stored |-> stored]

\* Action.config_schema setter; current is what the getter returns
config_schema_setter(current, tic_or_pan_dat_schema) ==
    IF ~(IsFactory(current) \/ IsNone(current))
    THEN ConfigResult(Exc("TypeError", "config_schema"), current)
    ELSE IF Falsy(tic_or_pan_dat_schema)
    THEN ConfigResult(NoExc, tic_or_pan_dat_schema)
    ELSE IF ~IsFactory(tic_or_pan_dat_schema)
    THEN ConfigResult(Exc("AttributeError", "schema"), tic_or_pan_dat_schema)
    ELSE ConfigResult(NoExc, tic_or_pan_dat_schema)

InitConfig == Built /\ config_schema = NoneObj

set_config_schema ==
    /\ calls < MaxCalls
    /\ calls' = calls + 1
    /\ \E value \in ConfigValues :
          \E r \in {config_schema_setter(config_schema, value)} :
             /\ last' = Call("set_config_schema", "", RootPath, value,
                             r.raised, <<>>)
             /\ config_schema' = r.stored
    /\ again' = FALSE
    /\ io' = <<>>
    /\ UNCHANGED <<data_source_mappings, is_running_on_enframe,
                   enframe_db_url, resolved>>

NextConfig == set_config_schema

SpecConfig == InitConfig /\ [][NextConfig]_vars

-----------------------------------------------------------------------------
(* Vocabulary of the properties: the lookup and inheritance rules as the   *)
(* specification states them, evaluated on the registry before the call.   *)

Partitions == {"local", "enframe"}

SchemaNames == {"sales", "config_schema", "hr"}

TableNames == {"orders", "items"}

HasRoot(m) == "source" \in DOMAIN m

HasSchema(m, S) == "schemas" \in DOMAIN m /\ S \in DOMAIN m["schemas"]

HasSchemaSource(m, S) ==
    HasSchema(m, S) /\ "source" \in DOMAIN m["schemas"][S]

HasTables(m, S) == HasSchema(m, S) /\ "tables" \in DOMAIN m["schemas"][S]

HasTableSource(m, S, T) ==
    HasTables(m, S) /\ T \in DOMAIN m["schemas"][S]["tables"]

SchemaSource(m, S) == m["schemas"][S]["source"]

TableSource(m, S, T) == m["schemas"][S]["tables"][T]["source"]

RootAncestors(m) == IF HasRoot(m) THEN <<m["source"]>> ELSE <<>>

SchemaAncestors(m, S) ==
    (IF HasSchemaSource(m, S) THEN <<SchemaSource(m, S)>> ELSE <<>>)
        \o RootAncestors(m)

\* the value of field f on the nearest ancestor that has it: <<v>>, or <<>>
RECURSIVE NearestWith(_, _)
NearestWith(f, ancestors) ==
    IF ancestors = <<>> THEN <<>>
    ELSE IF Head(ancestors)[2] = "db" /\ f \in DOMAIN Head(ancestors)[1]
    THEN <<Head(ancestors)[1][f]>>
    ELSE NearestWith(f, Tail(ancestors))

Backfilled(own, ancestors) ==
    [k \in (DOMAIN own)
            \cup {f \in {"db_url", "db_schema"} :
                     NearestWith(f, ancestors) # <<>>}
        |-> IF k \in DOMAIN own THEN own[k]
            ELSE NearestWith(k, ancestors)[1]]

WithTable(own, T) ==
    IF "db_table" \in DOMAIN own THEN own ELSE DictSet(own, "db_table", T)

\* this step is a getter call on partition p, which exists, for name
Resolves(p, name) ==
    /\ calls' = calls + 1
    /\ p \in DOMAIN data_source_mappings
    /\ last'.op = "get"
    /\ last'.partition = p
    /\ last'.name = name

Returned == last'.raised = NoExc

\* every stored (data_source, type) tuple of a partition
RootEntries(m) == IF HasRoot(m) THEN {m["source"]} ELSE {}

SchemaEntries(m) ==
    IF "schemas" \notin DOMAIN m THEN {}
    ELSE {SchemaSource(m, S) :
             S \in {X \in DOMAIN m["schemas"] : HasSchemaSource(m, X)}}

TableEntries(m) ==
    IF "schemas" \notin DOMAIN m THEN {}
    ELSE UNION {{TableSource(m, S, T) :
                    T \in DOMAIN m["schemas"][S]["tables"]} :
                S \in {X \in DOMAIN m["schemas"] : HasTables(m, X)}}

-----------------------------------------------------------------------------
(* Properties *)

\* C1: with a database default {db_url: A, db_schema: B} and a schema S
\* whose own source is {db_schema: C} and under which no table is
\* registered, resolving 'S.T' returns a database location with db_url = A
\* and db_schema = C.
C1_Pre(m, S) ==
    /\ HasRoot(m)
    /\ m["source"][2] = "db"
    /\ DOMAIN m["source"][1] = {"db_url", "db_schema"}
    /\ HasSchemaSource(m, S)
    /\ SchemaSource(m, S)[2] = "db"
    /\ DOMAIN SchemaSource(m, S)[1] = {"db_schema"}
    /\ ~HasTables(m, S)

C1_Step ==
    \A p \in Partitions, S \in SchemaNames, T \in TableNames :
        (Resolves(p, <<S, T>>) /\ C1_Pre(data_source_mappings[p], S))
        => /\ Returned
           /\ last'.ret[2] = "db"
           /\ {"db_url", "db_schema"} \subseteq DOMAIN last'.ret[1]
           /\ last'.ret[1]["db_url"] =
                  data_source_mappings[p]["source"][1]["db_url"]
           /\ last'.ret[1]["db_schema"] =
                  SchemaSource(data_source_mappings[p], S)[1]["db_schema"]

C1_FieldInheritanceAtTable == [][C1_Step]_vars

\* C2: with the default {db_url: 'postgres://x', db_schema: 'public'} and,
\* as the only other registration, the table source {db_table: 'orders_v2'}
\* at 'sales.orders', resolving 'sales.orders' returns
\* {db_url: 'postgres://x', db_schema: 'public', db_table: 'orders_v2'}.
C2_Registry ==
    [source |-> <<[db_url |-> "postgres://x", db_schema |-> "public"], "db">>,
     schemas |->
        [sales |->
            [tables |->
                [orders |->
                    [source |-> <<[db_table |-> "orders_v2"], "db">>]]]]]

C2_Step ==
    \A p \in Partitions :
        (Resolves(p, <<"sales", "orders">>)
            /\ data_source_mappings[p] = C2_Registry)
        => /\ Returned
           /\ last'.ret =
                  <<[db_url |-> "postgres://x", db_schema |-> "public",
                     db_table |-> "orders_v2"], "db">>

C2_TableOverrideInheritsRoot == [][C2_Step]_vars

\* C3: with a file_or_dir default D and a schema S that has no entry,
\* resolving 'S.T' returns (D, file_or_dir) whatever is registered for the
\* other schemas.
C3_Step ==
    \A p \in Partitions, S \in SchemaNames, T \in TableNames :
        (Resolves(p, <<S, T>>)
            /\ HasRoot(data_source_mappings[p])
            /\ data_source_mappings[p]["source"][2] = "file_or_dir"
            /\ ~HasSchema(data_source_mappings[p], S))
        => /\ Returned
           /\ last'.ret = data_source_mappings[p]["source"]

C3_FileDefaultForUnregisteredSchema == [][C3_Step]_vars

\* C4: in a registry built by setter calls where schema S has its own
\* source and table T has no entry under S, resolving 'S.T' returns S's
\* source and kind; a database source comes back with db_table defaulted to
\* T and the missing db_url / db_schema taken from the partition default.
C4_Expected(m, S, T) ==
    IF SchemaSource(m, S)[2] = "db"
    THEN <<Backfilled(WithTable(SchemaSource(m, S)[1], T), RootAncestors(m)),
           "db">>
    ELSE SchemaSource(m, S)

C4_Step ==
    \A p \in Partitions, S \in SchemaNames, T \in TableNames :
        (Resolves(p, <<S, T>>)
            /\ ~resolved
            /\ HasSchemaSource(data_source_mappings[p], S)
            /\ ~HasTableSource(data_source_mappings[p], S, T))
        => /\ Returned
           /\ last'.ret = C4_Expected(data_source_mappings[p], S, T)

C4_TableFallsBackToSchema == [][C4_Step]_vars

\* C5: in a registry built by setter calls where schema S has no entry,
\* resolving 'S.T' returns the partition default and its kind when there is
\* a default, and fails with the no-default error when there is none.
C5_Step ==
    \A p \in Partitions, S \in SchemaNames, T \in TableNames :
        (Resolves(p, <<S, T>>)
            /\ ~resolved
            /\ ~HasSchema(data_source_mappings[p], S))
        => IF HasRoot(data_source_mappings[p])
           THEN /\ Returned
                /\ last'.ret[2] = data_source_mappings[p]["source"][2]
                /\ \/ last'.ret[1] = data_source_mappings[p]["source"][1]
                   \/ /\ last'.ret[2] = "db"
                      /\ last'.ret[1] =
                             WithTable(
                                 data_source_mappings[p]["source"][1], T)
           ELSE last'.raised = Exc("KeyError", "source")

C5_TableFallsBackToRoot == [][C5_Step]_vars

\* C6: in a registry built by setter calls, resolving a bare schema name S
\* returns S's own source if it has one and the partition default otherwise
\* (S without any entry, or S present only because a table was registered
\* under it); a database result gets its missing db_url / db_schema from
\* the partition default.
C6_Picked(m, S) ==
    IF HasSchemaSource(m, S) THEN SchemaSource(m, S) ELSE m["source"]

C6_Expected(m, S) ==
    IF C6_Picked(m, S)[2] = "db"
    THEN <<Backfilled(C6_Picked(m, S)[1], RootAncestors(m)), "db">>
    ELSE C6_Picked(m, S)

C6_Step ==
    \A p \in Partitions, S \in SchemaNames :
        (Resolves(p, <<S>>)
            /\ ~resolved
            /\ HasRoot(data_source_mappings[p]))
        => /\ Returned
           /\ last'.ret = C6_Expected(data_source_mappings[p], S)

C6_SchemaLevelResolution == [][C6_Step]_vars

\* C7: a getter call, whether it returns or raises, leaves every stored
\* entry of the registry with the fields and values it had before.
C7_Step ==
    (calls' = calls + 1 /\ last'.op = "get")
    => data_source_mappings' = data_source_mappings

C7_ResolutionLeavesRegistryUnchanged == [][C7_Step]_vars

\* C8: a database location resolved at schema or table granularity gets each
\* missing db_url / db_schema from the nearest ancestor that has the field;
\* when no ancestor has it, also when the schema's source or the partition
\* default is a file_or_dir location, the call still returns and the field
\* stays absent.
C8_SchemaStep ==
    \A p \in Partitions, S \in SchemaNames :
        (Resolves(p, <<S>>)
            /\ HasSchemaSource(data_source_mappings[p], S)
            /\ SchemaSource(data_source_mappings[p], S)[2] = "db")
        => /\ Returned
           /\ last'.ret[1] =
                  Backfilled(SchemaSource(data_source_mappings[p], S)[1],
                             RootAncestors(data_source_mappings[p]))

C8_TableStep ==
    \A p \in Partitions, S \in SchemaNames, T \in TableNames :
        (Resolves(p, <<S, T>>)
            /\ HasTableSource(data_source_mappings[p], S, T)
            /\ TableSource(data_source_mappings[p], S, T)[2] = "db")
        => /\ Returned
           /\ last'.ret[1] =
                  Backfilled(
                      WithTable(
                          TableSource(data_source_mappings[p], S, T)[1], T),
                      SchemaAncestors(data_source_mappings[p], S))

C8_BackfillToleratesMissing == [][C8_SchemaStep /\ C8_TableStep]_vars

\* C9: in every reachable registry the stored partition-default database
\* record and every stored schema-level database source have no db_table.
C9_NoTableNameAboveTableLevel ==
    \A p \in DOMAIN data_source_mappings :
        \A e \in RootEntries(data_source_mappings[p])
                    \cup SchemaEntries(data_source_mappings[p]) :
            e[2] = "db" => "db_table" \notin DOMAIN e[1]

\* C10: in every reachable registry every stored database location that has
\* a db_url also has a db_schema.
C10_UrlImpliesSchema ==
    \A p \in DOMAIN data_source_mappings :
        \A e \in RootEntries(data_source_mappings[p])
                    \cup SchemaEntries(data_source_mappings[p])
                    \cup TableEntries(data_source_mappings[p]) :
            (e[2] = "db" /\ "db_url" \in DOMAIN e[1])
            => "db_schema" \in DOMAIN e[1]

\* C11: resolving '' returns exactly the stored default source and kind of
\* the partition, and in a partition without default source it fails with
\* the no-default-source error (KeyError 'source').
C11_Step ==
    \A p \in Partitions :
        Resolves(p, RootPath)
        => IF HasRoot(data_source_mappings[p])
           THEN /\ Returned
                /\ last'.ret = data_source_mappings[p]["source"]
           ELSE /\ last'.raised = Exc("KeyError", "source")
                /\ last'.ret = <<>>

C11_RootResolution == [][C11_Step]_vars

\* '' was resolved in a partition that has schemas but no default source
C11_Witness ==
    /\ last.op = "get"
    /\ last.name = RootPath
    /\ last.raised = Exc("KeyError", "source")
    /\ "schemas" \in DOMAIN data_source_mappings["local"]
    /\ ~HasRoot(data_source_mappings["local"])

\* C12: in every registry state, also one without any schema or table,
\* resolving a name with more than one '.' or with an empty table segment
\* fails with the invalid-path error (ValueError) and returns nothing.
InvalidPath(name) == Len(name) > 2 \/ (Len(name) = 2 /\ name[2] = "")

C12_Step ==
    \A p \in Partitions, name \in AnyPaths :
        (Resolves(p, name) /\ InvalidPath(name))
        => /\ last'.raised # NoExc
           /\ last'.raised[1] = "ValueError"
           /\ last'.ret = <<>>

C12_InvalidPathRejected == [][C12_Step]_vars

\* C13: a getter call that repeats the partition and name of the getter
\* call right before it has the same outcome: the same returned location
\* and kind, or the same error.
C13_Step ==
    (/\ calls' = calls + 1
     /\ last.op = "get"
     /\ last'.op = "get"
     /\ last'.partition = last.partition
     /\ last'.name = last.name)
    => /\ last'.raised = last.raised
       /\ last'.ret = last.ret

C13_Idempotent == [][C13_Step]_vars

\* a schema-level resolution that filled in a parameter was repeated
C13_Witness ==
    /\ again
    /\ last.raised = NoExc
    /\ Len(last.name) = 1
    /\ last.name # RootPath
    /\ last.partition \in DOMAIN data_source_mappings
    /\ HasSchemaSource(data_source_mappings[last.partition], last.name[1])
    /\ last.ret[2] = "db"
    /\ "db_url" \in DOMAIN last.ret[1]
    /\ last.ret[1]["db_url"] = EnframeDbUrl

\* this step is a setter call on partition p, which exists
Sets(p) ==
    /\ calls' = calls + 1
    /\ p \in DOMAIN data_source_mappings
    /\ last'.op = "set"
    /\ last'.partition = p

Rejected ==
    /\ last'.raised # NoExc
    /\ last'.raised[1] = "ValueError"
    /\ data_source_mappings' = data_source_mappings

\* C14: at every granularity a setter call with a database location that
\* has db_url and no db_schema fails with the invalid-location error
\* (ValueError) and stores nothing.
C14_Step ==
    \A p \in Partitions :
        (/\ Sets(p)
         /\ IsDict(last'.data_source)
         /\ "db_url" \in DOMAIN last'.data_source
         /\ "db_schema" \notin DOMAIN last'.data_source)
        => Rejected

C14_UrlWithoutSchemaRejected == [][C14_Step]_vars

\* {db_url, db_table} was refused at a table name
C14_Witness ==
    /\ last.op = "set"
    /\ last.partition \in DOMAIN data_source_mappings
    /\ Len(last.name) = 2
    /\ last.name[2] # ""
    /\ IsDict(last.data_source)
    /\ DOMAIN last.data_source = {"db_url", "db_table"}
    /\ last.raised # NoExc
    /\ last.raised[1] = "ValueError"

\* C15: db_table is accepted exactly at table granularity: a database
\* location set at '' or at a schema name fails when it has db_table, one
\* set at 'schema.table' fails when it has no db_table, and in both cases
\* nothing is stored.
C15_Step ==
    \A p \in Partitions :
        (/\ Sets(p)
         /\ IsDict(last'.data_source)
         /\ last'.data_source # EmptyDict)
        => /\ (/\ Len(last'.name) = 1
               /\ "db_table" \in DOMAIN last'.data_source) => Rejected
           /\ (/\ Len(last'.name) = 2
               /\ last'.name[2] # ""
               /\ "db_table" \notin DOMAIN last'.data_source) => Rejected

C15_TableNameOnlyAtTableLevel == [][C15_Step]_vars

\* where the entry of a name is stored
NameLoc(name) ==
    IF name = RootPath THEN RootLoc
    ELSE IF Len(name) = 1 THEN SchemaLoc(name[1])
    ELSE TableLoc(name[1], name[2])

\* the places of a partition that hold a (data_source, type) tuple
EntryLocs(m) ==
    (IF HasRoot(m) THEN {RootLoc} ELSE {})
    \cup (IF "schemas" \notin DOMAIN m THEN {}
          ELSE {SchemaLoc(S) :
                   S \in {X \in DOMAIN m["schemas"] : HasSchemaSource(m, X)}})
    \cup (IF "schemas" \notin DOMAIN m THEN {}
          ELSE UNION {{TableLoc(S, T) :
                          T \in DOMAIN m["schemas"][S]["tables"]} :
                      S \in {X \in DOMAIN m["schemas"] : HasTables(m, X)}})

ValidName(name) ==
    Len(name) = 1 \/ (Len(name) = 2 /\ name[2] # "")

StoredAs(p, type) ==
    /\ Returned
    /\ NameLoc(last'.name) \in EntryLocs(data_source_mappings'[p])
    /\ DictAt(data_source_mappings'[p], NameLoc(last'.name))
           = <<last'.data_source, type>>

NotALocation ==
    /\ last'.raised = Exc("ValueError", "data_source")
    /\ data_source_mappings' = data_source_mappings

\* what is common to kind inference as claimed and as amended: a
\* pathlib.Path is stored as file_or_dir, a non-empty dict is a database
\* location (stored as db unless a database check refuses it), an empty
\* dict or any other value is refused
C16_PathDictOther(p) ==
    /\ IsPath(last'.data_source) => StoredAs(p, "file_or_dir")
    /\ (IsDict(last'.data_source) /\ last'.data_source # EmptyDict)
       => \/ StoredAs(p, "db")
          \/ /\ Rejected
             /\ last'.raised[2] \in {"db_schema", "db_table", "PostgreSQL"}
    /\ (IsNone(last'.data_source) \/ last'.data_source = EmptyDict)
       => NotALocation

\* C16 as claimed: kind inference is total: every str and every
\* pathlib.Path is stored with kind file_or_dir, every non-empty dict is
\* classified as database, an empty dict or any other value fails with
\* the invalid-location error.
C16_ClaimedStep ==
    \A p \in Partitions :
        (Sets(p) /\ ValidName(last'.name))
        => /\ IsStr(last'.data_source) => StoredAs(p, "file_or_dir")
           /\ C16_PathDictOther(p)

C16_EveryStrIsAFile == [][C16_ClaimedStep]_vars

\* C16 amended: a str without URL scheme and every pathlib.Path is stored
\* with kind file_or_dir, a str with a URL scheme fails with the
\* invalid-location error, every non-empty dict is classified as database,
\* an empty dict or any other value fails with the invalid-location error.
C16_Step ==
    \A p \in Partitions :
        (Sets(p) /\ ValidName(last'.name))
        => /\ (/\ IsStr(last'.data_source)
               /\ urlparse_scheme(last'.data_source.str) = "")
              => StoredAs(p, "file_or_dir")
           /\ (/\ IsStr(last'.data_source)
               /\ urlparse_scheme(last'.data_source.str) # "")
              => NotALocation
           /\ C16_PathDictOther(p)

C16_KindInference == [][C16_Step]_vars

\* a str with a URL scheme was refused
C16_Witness ==
    /\ last.op = "set"
    /\ last.partition \in DOMAIN data_source_mappings
    /\ ValidName(last.name)
    /\ IsStr(last.data_source)
    /\ urlparse_scheme(last.data_source.str) = "http"
    /\ last.raised = Exc("ValueError", "data_source")

\* C17: a setter call that succeeds for name P in one partition stores its
\* entry at exactly P in exactly that partition: every other stored entry
\* of the partition (other tables of the schema, other schemas, the source
\* of the enclosing schema, the default) and the other partition are
\* unchanged.
C17_Step ==
    \A p \in Partitions :
        (Sets(p) /\ Returned)
        => LET before == data_source_mappings[p]
               after == data_source_mappings'[p]
               loc == NameLoc(last'.name)
           IN  /\ DOMAIN data_source_mappings' = DOMAIN data_source_mappings
               /\ \A q \in DOMAIN data_source_mappings \ {p} :
                      data_source_mappings'[q] = data_source_mappings[q]
               /\ EntryLocs(after) = EntryLocs(before) \cup {loc}
               /\ DictAt(after, loc)[1] = last'.data_source
               /\ \A l \in EntryLocs(before) \ {loc} :
                      DictAt(after, l) = DictAt(before, l)

C17_SetterFrame == [][C17_Step]_vars

\* a second table was stored under a schema, next to a schema with a
\* source of its own, in an action that has both partitions
C17_Witness ==
    /\ last.op = "set"
    /\ last.raised = NoExc
    /\ last.name = <<"sales", "items">>
    /\ DOMAIN data_source_mappings = Partitions
    /\ HasTableSource(data_source_mappings[last.partition], "sales", "orders")
    /\ HasTableSource(data_source_mappings[last.partition], "sales", "items")

\* this step is a read_data or write_data call
DataStep == calls' = calls + 1 /\ last'.op \in {"read", "write"}

\* the i-th event of the trace is a resolution that returned a database
\* location without db_url or without db_schema
LacksParam(trace, i) ==
    /\ trace[i].call = "get_data_source"
    /\ trace[i].args.raised = NoExc
    /\ trace[i].args.ret[2] = "db"
    /\ ~({"db_url", "db_schema"} \subseteq DOMAIN trace[i].args.ret[1])

\* C18: when read_data or write_data resolves a schema to a database
\* location that lacks db_url or db_schema, the call fails with the
\* missing-parameter error (ValueError) naming db_url if that is absent and
\* db_schema otherwise, and nothing is handed to a database collaborator
\* for that schema: the resolution is the last event of the call.
C18_Step ==
    DataStep
    => \A i \in 1..Len(io') :
          LacksParam(io', i)
          => /\ i = Len(io')
             /\ last'.raised =
                    Exc("ValueError",
                        IF "db_url" \notin DOMAIN io'[i].args.ret[1]
                        THEN "db_url" ELSE "db_schema")

C18_MissingParameter == [][C18_Step]_vars

\* write_data with create_tables stopped at an object whose database
\* location has db_schema and no db_url
C18_Witness ==
    /\ last.op = "write"
    /\ "create_tables" \in DOMAIN last.kwargs
    /\ last.raised = Exc("ValueError", "db_url")
    /\ Len(io) = 1
    /\ LacksParam(io, 1)
    /\ "db_schema" \in DOMAIN io[1].args.ret[1]

\* C19: in a write_data call made with create_tables set, every object
\* whose resolved location is a database has its tables created right
\* before its rows are written, the second and later such objects of the
\* call as well as the first.
C19_Step ==
    (/\ DataStep
     /\ last'.op = "write"
     /\ "create_tables" \in DOMAIN last'.kwargs
     /\ last'.kwargs["create_tables"])
    => \A i \in 1..Len(io') :
          io'[i].call = "_write_data_to_db"
          => /\ i > 1
             /\ io'[i - 1].call = "_create_tables_in_db"
             /\ io'[i - 1].name = io'[i].name
             /\ io'[i - 1].args.db_schema = io'[i].args.db_schema

C19_TablesCreatedBeforeEachWrite == [][C19_Step]_vars

\* the resolution that the i-th event of the trace, a database call,
\* belongs to
RECURSIVE ResolutionBefore(_, _)
ResolutionBefore(trace, i) ==
    IF trace[i].call = "get_data_source" THEN trace[i]
    ELSE ResolutionBefore(trace, i - 1)

\* C20: read_data and write_data hand the hosted connection object to the
\* database collaborator when the resolved db_url equals the action's
\* enframe_db_url; when it differs, or when the action has no
\* enframe_db_url, they hand over the resolved db_url string.
C20_Step ==
    DataStep
    => \A i \in 1..Len(io') :
          io'[i].call \in DbCalls
          => LET db_url ==
                     ResolutionBefore(io', i).args.ret[1]["db_url"]
             IN  io'[i].args.db_engine_or_url =
                     IF enframe_db_url # <<>> /\ enframe_db_url[1] = db_url
                     THEN [Connectable |-> enframe_db_url[1]]
                     ELSE StrObj(db_url)

C20_ConnectionSelection == [][C20_Step]_vars

\* one call of a hosted action handed over the hosted connection for one
\* schema and a URL string for another
C20_Witness ==
    /\ last.op \in {"read", "write"}
    /\ enframe_db_url # <<>>
    /\ \E i, j \in 1..Len(io) :
          /\ io[i].call \in DbCalls
          /\ io[j].call \in DbCalls
          /\ io[i].args.db_engine_or_url = [Connectable |-> enframe_db_url[1]]
          /\ IsStr(io[j].args.db_engine_or_url)

\* a local action, which has no enframe_db_url, handed over the URL string
\* of a location whose db_url is the hosted URL of other actions
C20_LocalWitness ==
    /\ last.op \in {"read", "write"}
    /\ enframe_db_url = <<>>
    /\ \E i \in 1..Len(io) :
          /\ io[i].call \in DbCalls
          /\ io[i].args.db_engine_or_url = StrObj(EnframeDbUrl)

-----------------------------------------------------------------------------
(* read_data: what is returned *)

CurrentPartition == IF is_running_on_enframe THEN "enframe" ELSE "local"

\* the object read_data builds for a name: made by the factory bound to the
\* schema of the name, with the name recorded on it
DatasetOf(name) == Dat(name[1], <<name>>)

\* events 2k-1 and 2k of the trace are the resolution of the name and the
\* read of the schema of the name from the location that resolution returned
ReadFrom(trace, k, name) ==
    LET got == trace[2 * k - 1]
        rd == trace[2 * k]
        src == got.args.ret[1]
    IN  /\ got.call = "get_data_source"
        /\ got.name = name
        /\ got.args.raised = NoExc
        /\ rd.name = name
        /\ rd.args.schema = name[1]
        /\ IF got.args.ret[2] = "file_or_dir"
           THEN /\ rd.call = "_read_data_from_file_system"
                /\ rd.args.data_path \in
                       {path_text(src), path_parent(path_text(src))}
           ELSE /\ rd.call = "_read_data_from_db"
                /\ rd.args.db_schema = src["db_schema"]
                /\ rd.args.db_engine_or_url \in
                       {StrObj(src["db_url"]), [Connectable |-> src["db_url"]]}

\* C21: a read_data call that succeeds with one name returns the dataset of
\* that name itself; with two or more names it returns a mapping whose keys
\* are exactly the names given, each mapped to the dataset of its name.
\* Every name is resolved in the partition of the current mode (local, or
\* enframe when is_running_on_enframe) and read from the location that
\* resolution returned.
C21_Step ==
    (DataStep /\ last'.op = "read" /\ last'.raised = NoExc)
    => LET names == last'.args
           first == get_partition_data_source(data_source_mappings,
                        CurrentPartition, names[1])
       IN  /\ names # <<>>
           /\ Len(io') = 2 * Len(names)
           /\ \A k \in 1..Len(names) : ReadFrom(io', k, names[k])
           /\ io'[1] = Resolution(names[1], first)
           /\ Len(names) > 1
              => io'[3] = Resolution(names[2],
                              get_partition_data_source(first.mappings,
                                  CurrentPartition, names[2]))
           /\ IF Len(names) = 1
              THEN last'.ret = DatasetOf(names[1])
              ELSE /\ DOMAIN last'.ret = {names[k] : k \in 1..Len(names)}
                   /\ \A n \in DOMAIN last'.ret :
                         last'.ret[n] = DatasetOf(n)

C21_ReadDataReturn == [][C21_Step]_vars

\* a hosted read of two different names that succeeded
C21_Witness ==
    /\ last.op = "read"
    /\ last.raised = NoExc
    /\ last.partition = "enframe"
    /\ Len(last.args) = 2
    /\ last.args[1] # last.args[2]
    /\ DOMAIN last.ret = {last.args[1], last.args[2]}

\* a read of one name that succeeded
C21_OneNameWitness ==
    /\ last.op = "read"
    /\ last.raised = NoExc
    /\ Len(last.args) = 1
    /\ IsTicOrPanDat(last.ret)

-----------------------------------------------------------------------------
(* write_data: the schema name of each object *)

\* the name write_data is to find for an object: the one read_data recorded
\* on it, else the schema attribute bound to the factory that made it;
\* <<>> when there is neither
NameOf(tic_or_pan_dat) ==
    IF tic_or_pan_dat._schema # <<>> THEN tic_or_pan_dat._schema
    ELSE IF tic_or_pan_dat.factory \in SchemaAttrs
    THEN <<<<tic_or_pan_dat.factory>>>>
    ELSE <<>>

\* the resolutions of a trace, in order
RECURSIVE Resolutions(_)
Resolutions(trace) ==
    IF trace = <<>> THEN <<>>
    ELSE IF Head(trace).call = "get_data_source"
    THEN <<Head(trace)>> \o Resolutions(Tail(trace))
    ELSE Resolutions(Tail(trace))

\* how many objects the trace shows as written
Writes(trace) ==
    Cardinality({i \in 1..Len(trace) :
                    trace[i].call \in {"_write_data_to_file_system",
                                       "_write_data_to_db"}})

UnknownSchema == Exc("ValueError", "tic_or_pan_dat")

\* C22: write_data takes the objects in order; the name it resolves for an
\* object is the name recorded on the object by read_data when there is
\* one, otherwise the schema attribute whose factory made the object.  At
\* the first object with neither the call fails with the unknown-schema
\* error (it is reached when every object before it was written), and
\* nothing is resolved or written for that object or for any object after it.
C22_Step ==
    (/\ DataStep
     /\ last'.op = "write"
     /\ \A k \in 1..Len(last'.args) : IsTicOrPanDat(last'.args[k]))
    => LET dats == last'.args
           got == Resolutions(io')
           n == Len(got)
       IN  /\ n <= Len(dats)
           /\ \A k \in 1..n :
                 /\ NameOf(dats[k]) # <<>>
                 /\ got[k].name = NameOf(dats[k])[1]
           /\ \A i \in 1..Len(io') :
                 io'[i].call # "get_data_source"
                 => \E k \in 1..n : io'[i].name = got[k].name
           /\ last'.raised = UnknownSchema
              => n < Len(dats) /\ NameOf(dats[n + 1]) = <<>>
           /\ \A k \in 1..Len(dats) :
                 NameOf(dats[k]) = <<>>
                 => /\ n < k
                    /\ last'.raised # NoExc
                    /\ Writes(io') = k - 1 => last'.raised = UnknownSchema

C22_SchemaNameOfDataset == [][C22_Step]_vars

\* a call whose first object was written under the name found from its
\* factory and whose second object has no name
C22_Witness ==
    /\ last.op = "write"
    /\ last.raised = UnknownSchema
    /\ Len(last.args) = 2
    /\ last.args[1]._schema = <<>>
    /\ Len(io) = 2
    /\ io[2].call \in {"_write_data_to_file_system", "_write_data_to_db"}
    /\ io[2].name = <<last.args[1].factory>>

-----------------------------------------------------------------------------
(* Construction *)

NewStep == last.op = "start" /\ last'.op = "new"

\* the inputs of the constructor with which some step of hosted-mode
\* detection is not there or fails
DetectionFails(args) ==
    \/ args.argv # "json"
    \/ args.config # "valid"
    \/ args.engine = "raises"
    \/ NewEnframe(TRUE, args.scenario_name).raised # NoExc

\* C23: construction never surfaces an error of hosted-mode detection:
\* whatever sys.argv, the configuration file, create_engine and the
\* registration of the hosted default sources do, __new__ returns an
\* action, and when the arguments are absent or a step of detection failed
\* the action is in local mode, without a hosted partition.
C23_Step ==
    NewStep
    => /\ last'.raised = NoExc
       /\ DetectionFails(last'.args)
          => /\ ~is_running_on_enframe'
             /\ "enframe" \notin DOMAIN data_source_mappings'

C23_DetectionNeverRaises == [][C23_Step]_vars

HostedNew == NewStep /\ last'.raised = NoExc /\ is_running_on_enframe'

TypeScenario(scenario_name) == lower(TypeName) \o "_" \o scenario_name

\* what resolving the name returns in the hosted partition of the registry
HostedSource(mappings, name) ==
    get_data_source(mappings["enframe"], name).ret[1]

\* C24 as claimed: after construction in hosted mode the default source of
\* the hosted partition, which is what resolving '' returns, has db_url
\* equal to the hosted URL and db_schema equal to the lowercased type name,
\* '_' and the scenario name.
C24_ClaimedStep ==
    HostedNew
    => HostedSource(data_source_mappings', RootPath) =
           [db_url |-> EnframeDbUrl,
            db_schema |-> TypeScenario(last'.args.scenario_name)]

C24_DefaultSchemaIsTypeScenario == [][C24_ClaimedStep]_vars

\* C24 amended: after construction in hosted mode the default source of
\* the hosted partition, returned for '' and inherited by a schema without
\* a source of its own, has db_url equal to the hosted URL and db_schema
\* equal to the scenario name; the lowercased type name, '_' and the
\* scenario name is the db_schema of the config_schema binding, which
\* inherits the hosted URL.
C24_Step ==
    HostedNew
    => LET scenario_name == last'.args.scenario_name
           default == [db_url |-> EnframeDbUrl, db_schema |-> scenario_name]
       IN  /\ enframe_db_url' = <<EnframeDbUrl>>
           /\ HostedSource(data_source_mappings', RootPath) = default
           /\ HostedSource(data_source_mappings', <<"sales">>) = default
           /\ HostedSource(data_source_mappings', <<"config_schema">>) =
                  [db_url |-> EnframeDbUrl,
                   db_schema |-> TypeScenario(scenario_name)]

C24_HostedDefaults == [][C24_Step]_vars

\* an action that construction just returned in hosted mode
C24_Witness ==
    /\ last.op = "new"
    /\ last.raised = NoExc
    /\ is_running_on_enframe
    /\ last.args.scenario_name = "scn"
    /\ "enframe" \in DOMAIN data_source_mappings

-----------------------------------------------------------------------------
(* Hosted mode and the hosted partition *)

\* C29: in every state of an action reached through construction, the
\* is_running_on_enframe setter and the data-source setters,
\* is_running_on_enframe = true implies that the hosted partition of the
\* registry exists with a default source and that the hosted URL (and with
\* it the connection) is set.
C29_HostedImpliesPartition ==
    (Constructed /\ is_running_on_enframe)
    => /\ "enframe" \in DOMAIN data_source_mappings
       /\ "source" \in DOMAIN data_source_mappings["enframe"]
       /\ enframe_db_url # <<>>

\* C29, its consequence: read_data and write_data of an action in hosted
\* mode never fail because the hosted partition is missing.
C29_Step ==
    (DataStep /\ is_running_on_enframe)
    => last'.raised # Exc("KeyError", "enframe")

C29_NoMissingPartition == [][C29_Step]_vars

-----------------------------------------------------------------------------
(* Writing to and reading from a file location *)

\* the i-th event of the trace is a resolution that returned a file
\* location with a supported extension for a bound schema
ResolvedToFile(trace, i) ==
    /\ trace[i].call = "get_data_source"
    /\ trace[i].args.raised = NoExc
    /\ trace[i].args.ret[2] = "file_or_dir"
    /\ path_suffix(path_text(trace[i].args.ret[1])) \in valid_extensions
    /\ Len(trace[i].name) = 1
    /\ trace[i].name[1] \in SchemaAttrs

\* C25: writing a dataset of a declared schema to a file location with a
\* supported extension succeeds whether or not the file is there before
\* the write (the first half of the round trip: the dataset is handed to
\* the writer of that file type, so that reading the location afterwards
\* can give it back).
C25_Step ==
    (DataStep /\ last'.op = "write")
    => \A i \in 1..Len(io') :
          ResolvedToFile(io', i)
          => /\ i < Len(io')
             /\ io'[i + 1].call = "_write_data_to_file_system"
             /\ io'[i + 1].name = io'[i].name

C25_WriteToFileLocation == [][C25_Step]_vars

-----------------------------------------------------------------------------
(* Resolution order, inheritance after a replaced default, failed setters *)

Outcome(r) == <<r.raised, r.ret>>

\* C26: the outcome of resolving a path depends only on the setter calls
\* made so far: in a registry that only construction and setter calls have
\* built, resolving a path q changes the outcome (the error raised, or the
\* location and kind returned) of resolving no path p of the partition.
C26_Step ==
    (/\ ~resolved
     /\ calls' = calls + 1
     /\ last'.op = "get"
     /\ last'.partition \in DOMAIN data_source_mappings)
    => \A p \in Paths :
          Outcome(get_data_source(
                      data_source_mappings'[last'.partition], p)) =
          Outcome(get_data_source(
                      data_source_mappings[last'.partition], p))

C26_ResolutionOrderIrrelevant == [][C26_Step]_vars

\* C27: inheritance reflects the current default.  In these runs no schema
\* and no table is ever registered with a db_url of its own (the
\* constructor registers config_schema with db_schema alone, the setters
\* are called with db_schema or db_table alone).  So whenever the default
\* of the partition is a database location with a db_url and resolving a
\* schema or table returns a database location, the db_url returned is the
\* db_url of the default the partition has now, whatever was resolved
\* before the default was replaced.
C27_Step ==
    (/\ calls' = calls + 1
     /\ last'.op = "get"
     /\ last'.name # RootPath
     /\ last'.raised = NoExc
     /\ last'.ret[2] = "db"
     /\ data_source_mappings[last'.partition]["source"][2] = "db")
    => LET default == data_source_mappings[last'.partition]["source"][1]
       IN  /\ "db_url" \in DOMAIN last'.ret[1]
           /\ last'.ret[1]["db_url"] = default["db_url"]

C27_InheritanceIsCurrent == [][C27_Step]_vars

\* C28: a setter call that raises (malformed name, invalid location, a
\* connection string that is not PostgreSQL, a combination of db_url,
\* db_schema and db_table that the name does not allow, a partition that
\* is not there) leaves the whole registry as it was before the call.
C28_Step ==
    (calls' = calls + 1 /\ last'.op = "set" /\ last'.raised # NoExc)
    => data_source_mappings' = data_source_mappings

C28_FailedSetterChangesNothing == [][C28_Step]_vars

\* a file location was refused for a name whose table part is empty, in a
\* partition that has no schema yet
C28_Witness ==
    /\ last.op = "set"
    /\ last.partition = "local"
    /\ last.name = <<"sales", "">>
    /\ IsPath(last.data_source)
    /\ last.raised = Exc("ValueError", "table_name")
    /\ "schemas" \notin DOMAIN data_source_mappings["local"]

-----------------------------------------------------------------------------
(* The config_schema setter *)

\* C30: the config_schema setter accepts a TicDatFactory, a PanDatFactory
\* or None and nothing else: an assignment of one of these succeeds and
\* stores it; an assignment of any other value raises and leaves the
\* stored config_schema as it was.
C30_Step ==
    (calls' = calls + 1 /\ last'.op = "set_config_schema")
    => IF IsFactory(last'.data_source) \/ IsNone(last'.data_source)
       THEN last'.raised = NoExc /\ config_schema' = last'.data_source
       ELSE last'.raised # NoExc /\ config_schema' = config_schema

C30_ConfigSchemaSetter == [][C30_Step]_vars

\* C30, its consequence: after any sequence of assignments the stored
\* config_schema is a factory or None.
C30_StoredIsFactoryOrNone == IsFactory(config_schema) \/ IsNone(config_schema)

====
